---- MODULE Spec2Model ----
(***************************************************************************)
(* Resilient content acquisition: ExtractionService (scrapeOnly,           *)
(* extractFromUrl, withTimeout, handleError), WebScraperService (scrapeUrl,*)
(* fetchRawHtml, fetchPage, launchPuppeteer, fetchWithPuppeteer) and the    *)
(* module-level scrapeFromQuery.  One acquisition call is modelled from    *)
(* its entry point to its outcome, together with everything the abandoned  *)
(* scrape still does after the caller has been answered.                   *)
(*                                                                         *)
(* Texts (error messages, hostnames) are sequences of tokens; the token    *)
(* boundaries are chosen so that every pattern the code searches for is a  *)
(* whole number of tokens, which makes token search agree with the code's  *)
(* String.includes / RegExp.test / String.split on these texts.            *)
(***************************************************************************)
EXTENDS Integers, Sequences, FiniteSets, TLC

-----------------------------------------------------------------------------
(* Text helpers *)

\* String.prototype.includes on token texts
Includes(s, pat) ==
  \E i \in 1..(Len(s) - Len(pat) + 1) : SubSeq(s, i, i + Len(pat) - 1) = pat

\* positions at which pat occurs in s
Occurrences(s, pat) ==
  {i \in 1..(Len(s) - Len(pat) + 1) : SubSeq(s, i, i + Len(pat) - 1) = pat}

SetMin(S) == CHOOSE m \in S : \A x \in S : m <= x

\* const [, details] = s.split(sep): the piece between the first and the
\* second occurrence of sep, undefined when sep does not occur
SplitSecond(s, sep) ==
  LET occ == Occurrences(s, sep) IN
  IF occ = {} THEN [defined |-> FALSE, text |-> <<>>]
  ELSE LET first == SetMin(occ)
           from  == first + Len(sep)
           later == {i \in occ : i >= from}
           to    == IF later = {} THEN Len(s) ELSE SetMin(later) - 1
       IN [defined |-> TRUE, text |-> SubSeq(s, from, to)]

-----------------------------------------------------------------------------
(* Errors *)

\* a thrown Error: axios.isAxiosError(e), e.code, e.message
Err(isAxios, code, message) ==
  [axios |-> isAxios, code |-> code, message |-> message]

NoError == Err(FALSE, "", <<>>)

PlainError(message) == Err(FALSE, "", message)

\* new Error(`HTTP_ERROR_STATUS_${resp.status}`)
StatusError(n) == PlainError(<<"HTTP_ERROR", "_", "STATUS_", ToString(n)>>)

\* errors axios.get rejects with when no response arrives
AxiosFailures ==
  { Err(TRUE, "ECONNABORTED", <<"timeout", " of 90000ms exceeded">>),
    Err(TRUE, "ENOTFOUND", <<"getaddrinfo ENOTFOUND">>) }

ContextDestroyed == PlainError(<<"Execution context was destroyed">>)

-----------------------------------------------------------------------------
(* ApiResponse *)

Resp(status, ok, error) == [status |-> status, ok |-> ok, error |-> error]

NoResponse == Resp(0, FALSE, "")

\* what handleError does: return an ApiResponse, or throw
Returned(r) == [throws |-> FALSE, resp |-> r]

\* handleError below its total-timeout branch
handleErrorRest(error) ==
  LET m == error.message IN
  IF \/ Includes(m, <<"PUPPETEER_PROTOCOL_TIMEOUT">>)
     \/ Includes(m, <<"Navigation ", "timeout">>)
     \/ Includes(m, <<"ProtocolError">>)
    THEN Returned(Resp(504, FALSE, "BROWSER_TIMEOUT"))
  ELSE IF Includes(m, <<"UNSUPPORTED_PROTOCOL">>)
    THEN Returned(Resp(400, FALSE, "UNSUPPORTED_PROTOCOL"))
  ELSE IF Includes(m, <<"BLOCKED_HOST">>) \/ Includes(m, <<"BLOCKED_PRIVATE_IP">>)
    THEN Returned(Resp(400, FALSE, "BLOCKED_HOST"))
  ELSE IF Includes(m, <<"BLOCKED_BY_ANTIBOT">>)
    THEN Returned(Resp(429, FALSE, "ANTI_BOT_DETECTED"))
  ELSE IF Includes(m, <<"DNS_RESOLUTION_FAILED">>)
    THEN Returned(Resp(400, FALSE, "DNS_RESOLUTION_FAILED"))
  ELSE IF Includes(m, <<"HTTP_ERROR">>)
    THEN LET details == SplitSecond(m, <<"HTTP_ERROR", ": ">>) IN
         \* details.includes(...) on undefined throws a TypeError
         IF ~details.defined THEN [throws |-> TRUE, resp |-> NoResponse]
         ELSE IF Includes(details.text, <<"STATUS_", "403">>)
           THEN Returned(Resp(403, FALSE, "FORBIDDEN"))
         ELSE IF Includes(details.text, <<"STATUS_", "404">>)
           THEN Returned(Resp(404, FALSE, "NOT_FOUND"))
         ELSE IF Includes(details.text, <<"STATUS_", "429">>)
           THEN Returned(Resp(429, FALSE, "TOO_MANY_REQUESTS"))
         ELSE Returned(Resp(500, FALSE, "HTTP_ERROR"))
  ELSE IF Includes(m, <<"timeout">>) \/ Includes(m, <<"ETIMEDOUT">>)
    THEN Returned(Resp(504, FALSE, "REQUEST_TIMEOUT"))
  ELSE IF Includes(m, <<"GEMINI_API_KEY is required">>)
    THEN Returned(Resp(500, FALSE, "MISSING_GEMINI_API_KEY"))
  ELSE IF Includes(m, <<"reported as leaked">>)
    THEN Returned(Resp(500, FALSE, "GEMINI_API_KEY_LEAKED"))
  ELSE IF Includes(m, <<"Gemini extraction failed">>)
    THEN Returned(Resp(500, FALSE, "GEMINI_ERROR"))
  ELSE Returned(Resp(500, FALSE, "INTERNAL_ERROR"))

\* handleError without the branch for the tags of withTimeout
handleError_NoTotalTimeout(error) == handleErrorRest(error)

handleError(error) ==
  LET m == error.message IN
  IF Includes(m, <<"SCRAPE_TIMEOUT">>) \/ Includes(m, <<"GEMINI_TIMEOUT">>)
    THEN Returned(Resp(504, FALSE, "REQUEST_TIMEOUT"))
    ELSE handleErrorRest(error)

-----------------------------------------------------------------------------
(* Inputs *)

\* hostnames as token texts: a public host, a real-estate portal, an
\* internal host
PublicHost == <<"example.com">>

PortalHost == <<"www.", "inmuebles24.com">>

InternalHost == <<"localhost">>

\* a query: whether the URL schema accepts it, and new URL(url)'s fields
Urls == [valid : {TRUE}, protocol : {"http:", "https:", "ftp:"},
         hostname : {PublicHost, PortalHost, InternalHost}]
          \cup {[valid |-> FALSE, protocol |-> "http:", hostname |-> PublicHost]}

\* statuses a server answers with
Statuses == {200, 302, 403, 404, 429, 500}

\* lengths of the bodies it answers with: an unrendered shell, a full page
BodyLengths == {512, 48000}

\* isBlockedHost(hostname) -> {blocked, reason?}; reason "" is an absent one
NoReason == ""

isBlockedHost(hostname) ==
  IF hostname = InternalHost
    THEN [blocked : {TRUE}, reason : {NoReason, "BLOCKED_HOST", "BLOCKED_PRIVATE_IP"}]
    ELSE {[blocked |-> FALSE, reason |-> NoReason]}

\* ['http:', 'https:'].includes(urlObj.protocol)
ProtocolOk_Any(u) == TRUE

ProtocolOk(u) == u.protocol \in {"http:", "https:"}

realEstateHosts ==
  << <<"inmuebles24.com">>, <<"vivanuncios.com">>, <<"vivanuncios.com", ".mx">>,
     <<"lamudi.com">>, <<"lamudi.com", ".mx">>, <<"mercadolibre.com">>,
     <<"mercadolibre.com", ".mx">> >>

\* this.usePuppeteer: ExtractionService builds new WebScraperService()
usePuppeteer == FALSE

shouldUsePuppeteer_FlagOnly(u) == usePuppeteer

shouldUsePuppeteer(u) ==
  usePuppeteer \/ \E i \in 1..Len(realEstateHosts) : Includes(u.hostname, realEstateHosts[i])

maxAttempts == 4

\* while (attemptNo < maxAttempts)
MoreAttempts_Inclusive(n) == n <= maxAttempts

MoreAttempts_None(n) == FALSE

MoreAttempts(n) == n < maxAttempts

\* resp.status >= 200 && resp.status < 400
StatusOk(status) == status >= 200 /\ status < 400

\* fetchPage: resp.status === 403 || /access denied|distil|captcha/i.test(resp.data)
SoftBlock_SignatureOnly(status, sig) == sig

SoftBlock(status, sig) == status = 403 \/ sig

\* fetchRawHtml: resp.status === 403 || resp.status === 429
RawSoftBlock(status) == status = 403 \/ status = 429

\* scrapeUrl's catch: an Axios error is rethrown as 'HTTP_ERROR: <code> - <msg>'
ScrapeUrlCatch(e) ==
  IF e.axios
    THEN PlainError(<<"HTTP_ERROR", ": ", IF e.code = "" THEN "AXIOS_ERROR" ELSE e.code, " - ">>
                    \o e.message)
    ELSE e

\* /Execution context was destroyed/i.test(err.message)
IsContextDestroyed(e) == Includes(e.message, <<"Execution context was destroyed">>)

-----------------------------------------------------------------------------
(* State *)

VARIABLES
  entry,      \* the operation that was called
  url,        \* its URL
  pc,         \* where the scrape is suspended
  block,      \* the host filter's verdict
  attemptNo,  \* fetchPage: attemptNo
  lastError,  \* fetchPage: lastError
  resp,       \* fetchPage / fetchRawHtml: resp
  ops,        \* the call's isBlockedHost, axios.get and fetchWithPuppeteer calls, in order
  renderCtx,  \* the call site of the running fetchWithPuppeteer
  allowHeavy, \* its allowHeavy option
  runNo,      \* executions of run() started by it
  pending,    \* what it returns or throws once the finally block is done
  launched,   \* browsers launched so far
  open,       \* browsers that are open
  closed,     \* browser.close() calls, in order
  cur,        \* fetchWithPuppeteer: browser
  task,       \* the promise of scrapeUrl / fetchRawHtml
  callerPc,   \* where scrapeOnly / extractFromUrl / scrapeFromQuery stands
  response,   \* the ApiResponse handed to the caller
  timer       \* withTimeout: the timer and its tag

\* one fetchWithPuppeteer call, step by step
VARIABLES
  host,        \* new URL(url).hostname
  at,          \* where the call is suspended
  runs,        \* executions of run() started
  samples,     \* waitForRealContent: the states sampled by the current call
  reloaded,    \* waitForRealContent: reloaded
  pollReloads, \* page.reload calls of the current waitForRealContent call
  reloads,     \* page.reload calls of the fetchWithPuppeteer call
  attempt,     \* safeEvaluate: attempt
  ready,       \* how waitForRealContent returned
  html         \* what fetchWithPuppeteer returns or throws

\* one parseHtml call: extractImages, then extractFigures
VARIABLES
  markup,      \* the loaded document, after the unwanted elements are removed
  np,          \* where parseHtml stands
  mapped,      \* extractImages: what the map callback returned, img by img
  images,      \* ScrapedData.images
  figures      \* ScrapedData.figures

\* the lightweight loop of one fetchPage call: what it sends and how it sleeps
VARIABLES
  lp,          \* where the loop stands
  tryNo,       \* fetchPage's local attemptNo
  baseUA,      \* the User-Agent drawn at the start of the call
  userAgents,  \* the User-Agent header of every GET issued, in order
  sleeps       \* the milliseconds slept after every failed attempt, in order

\* one normalization, as far as the title goes
VARIABLES
  normalizer,  \* which normalizer runs: parseHtml or scrapeFromQuery
  source,      \* the elements of the markup given to load(html)
  dom,         \* the elements of the cheerio document, as they stand
  tp,          \* where the normalizer stands
  pageTitle    \* the title it returns

\* several scrapeUrl calls under way on one WebScraperService
VARIABLES
  instance,    \* the fields of the shared instance
  calls,       \* each call's own position, locals and outcome
  browsers     \* every browser launched so far: whether open, and who closed it

\* the text of one parseHtml call
VARIABLES
  harvest,     \* what parseHtml reads off the document: body text and metadata
  pageText,    \* parseHtml's local text, as it stands
  xp           \* where parseHtml stands

pollVars == <<samples, reloaded, pollReloads, reloads, attempt, ready>>

renderDetailVars == <<host, at, runs, pollVars, html>>

normalizerVars == <<markup, np, mapped, images, figures>>

retryVars == <<lp, tryNo, baseUA, userAgents, sleeps>>

titleVars == <<normalizer, source, dom, tp, pageTitle>>

concurrentVars == <<instance, calls, browsers>>

textVars == <<harvest, pageText, xp>>

detailVars == <<renderDetailVars, normalizerVars, retryVars, titleVars, concurrentVars, textVars>>

vars == <<entry, url, pc, block, attemptNo, lastError, resp, ops, renderCtx, allowHeavy,
          runNo, pending, launched, open, closed, cur, task, callerPc, response, timer,
          detailVars>>

loopVars == <<attemptNo, lastError, resp>>

renderVars == <<renderCtx, allowHeavy, runNo, pending>>

browserVars == <<launched, open, closed, cur>>

callerVars == <<callerPc, response, timer>>

acquisitionVars == <<entry, url, pc, block, loopVars, ops, renderVars, browserVars, task,
                     callerVars>>

besideRender == <<acquisitionVars, normalizerVars, retryVars, titleVars, concurrentVars, textVars>>

besideNormalizer == <<acquisitionVars, renderDetailVars, retryVars, titleVars, concurrentVars, textVars>>

besideRetry == <<acquisitionVars, renderDetailVars, normalizerVars, titleVars, concurrentVars, textVars>>

besideTitle == <<acquisitionVars, renderDetailVars, normalizerVars, retryVars, concurrentVars, textVars>>

besideConcurrent ==
  <<acquisitionVars, renderDetailVars, normalizerVars, retryVars, titleVars, textVars>>

besideText ==
  <<acquisitionVars, renderDetailVars, normalizerVars, retryVars, titleVars, concurrentVars>>

Wrapped == {"scrapeOnly", "extractFromUrl"}

Result(state, err) == [state |-> state, err |-> err]

Pending == Result("pending", NoError)

Ok == Result("ok", NoError)

Failed(e) == Result("err", e)

Timer(state, tag) == [state |-> state, tag |-> tag]

\* resp of the current fetchPage iteration / fetchRawHtml: none until it arrives
\* status, whether the body matches /access denied|distil|captcha/i, and the
\* length of the body
Response(status, sig, len) == [status |-> status, sig |-> sig, len |-> len]

NoResp == Response(0, FALSE, 0)

\* no scrapeUrl / fetchRawHtml / scrapeFromQuery call is under way
AcquisitionIdle ==
  /\ entry = "none"
  /\ url = [valid |-> FALSE, protocol |-> "http:", hostname |-> PublicHost]
  /\ pc = "idle"
  /\ block = [blocked |-> FALSE, reason |-> NoReason]
  /\ attemptNo = 0
  /\ lastError = NoError
  /\ resp = NoResp
  /\ ops = <<>>
  /\ renderCtx = "none"
  /\ allowHeavy = FALSE
  /\ runNo = 0
  /\ pending = Pending
  /\ launched = 0
  /\ open = {}
  /\ closed = <<>>
  /\ cur = 0
  /\ task = Pending
  /\ callerPc = "idle"
  /\ response = NoResponse
  /\ timer = Timer("none", "")

\* no fetchWithPuppeteer call is followed step by step
RenderIdle ==
  /\ host = <<>>
  /\ at = "idle"
  /\ runs = 0
  /\ samples = <<>>
  /\ reloaded = FALSE
  /\ pollReloads = 0
  /\ reloads = 0
  /\ attempt = 0
  /\ ready = "none"
  /\ html = Pending

\* no parseHtml call is under way
NormalizerIdle ==
  /\ markup = <<>>
  /\ np = "idle"
  /\ mapped = <<>>
  /\ images = <<>>
  /\ figures = <<>>

\* no fetchPage loop is followed attempt by attempt
RetryIdle ==
  /\ lp = "idle"
  /\ tryNo = 0
  /\ baseUA = <<>>
  /\ userAgents = <<>>
  /\ sleeps = <<>>

\* no normalizer is followed for its title
TitleIdle ==
  /\ normalizer = "none"
  /\ source = {}
  /\ dom = {}
  /\ tp = "idle"
  /\ pageTitle = <<>>

\* the instance as its constructor leaves it
Fields ==
  [proxyConfig |-> "null", proxyList |-> <<>>, currentProxyIndex |-> 0,
   usePuppeteer |-> usePuppeteer, lastRequestTime |-> 0, minDelay |-> 2000,
   maxDelay |-> 10000]

\* the instance is built and no call is followed
ConcurrentIdle ==
  /\ instance = Fields
  /\ calls = <<>>
  /\ browsers = <<>>

\* no parseHtml call is followed for its text
TextIdle ==
  /\ harvest = <<>>
  /\ pageText = <<>>
  /\ xp = "idle"

Init ==
  /\ AcquisitionIdle /\ RenderIdle /\ NormalizerIdle
  /\ RetryIdle /\ TitleIdle /\ ConcurrentIdle /\ TextIdle

-----------------------------------------------------------------------------
(* ExtractionService: withTimeout and the callers' continuations *)

\* scrapeOnly / extractFromUrl resume after await withTimeout(scrapeUrl(url)):
\* the race settled with the scrape's outcome, finally clears the timer
AfterScrape(res) ==
  IF res.state = "ok"
    THEN IF entry = "extractFromUrl"
           THEN /\ callerPc' = "gemini"
                /\ timer' = Timer("armed", "GEMINI_TIMEOUT")
                /\ UNCHANGED response
           ELSE /\ callerPc' = "returned"
                /\ timer' = Timer("cleared", timer.tag)
                /\ response' = Resp(200, TRUE, "")
    ELSE LET h == handleError(res.err) IN
         /\ timer' = Timer("cleared", timer.tag)
         /\ callerPc' = IF h.throws THEN "rejected" ELSE "returned"
         /\ response' = h.resp

Settle_Late(res) ==
  /\ task' = res
  /\ pc' = "done"
  /\ IF entry \in Wrapped
       THEN AfterScrape(res)
       ELSE UNCHANGED callerVars

\* the promise of scrapeUrl / fetchRawHtml settles
Settle(res) ==
  /\ task' = res
  /\ pc' = "done"
  /\ IF entry \in Wrapped /\ callerPc = "awaiting"
       THEN AfterScrape(res)
       ELSE UNCHANGED callerVars

\* withTimeout: the timer fires before the raced promise has settled
TimerFires ==
  /\ timer.state = "armed"
  /\ callerPc \in {"awaiting", "gemini"}
  /\ LET h == handleError(PlainError(<<timer.tag>>)) IN
     /\ callerPc' = IF h.throws THEN "rejected" ELSE "returned"
     /\ response' = h.resp
  /\ timer' = Timer("fired", timer.tag)
  /\ UNCHANGED <<detailVars, entry, url, pc, block, loopVars, ops, renderVars, browserVars, task>>

\* geminiService.extractPropertyInfo resolves
GeminiResolves ==
  /\ callerPc = "gemini"
  /\ callerPc' = "returned"
  /\ response' = Resp(200, TRUE, "")
  /\ timer' = Timer("cleared", timer.tag)
  /\ UNCHANGED <<detailVars, entry, url, pc, block, loopVars, ops, renderVars, browserVars, task>>

\* geminiService.extractPropertyInfo rejects
GeminiFails ==
  /\ callerPc = "gemini"
  /\ \E e \in { PlainError(<<"GEMINI_API_KEY is required">>),
                PlainError(<<"Gemini extraction failed", ": upstream">>) } :
       LET h == handleError(e) IN
       /\ callerPc' = IF h.throws THEN "rejected" ELSE "returned"
       /\ response' = h.resp
  /\ timer' = Timer("cleared", timer.tag)
  /\ UNCHANGED <<detailVars, entry, url, pc, block, loopVars, ops, renderVars, browserVars, task>>

-----------------------------------------------------------------------------
(* Entry points *)

UnsupportedProtocol == PlainError(<<"UNSUPPORTED_PROTOCOL">>)

\* scrapeOnly(query) / extractFromUrl(query): validation, then
\* withTimeout(scrapeUrl(url), REQUEST_TIMEOUT_MS, 'SCRAPE_TIMEOUT'); scrapeUrl
\* runs to its first await (isBlockedHost) or throws before it
CallExtraction ==
  /\ entry = "none"
  /\ \E e \in Wrapped, u \in Urls :
       /\ entry' = e
       /\ url' = u
       /\ IF ~u.valid
            THEN /\ callerPc' = "returned"
                 /\ response' = Resp(400, FALSE, "INVALID_URL")
                 /\ UNCHANGED <<pc, ops, task, timer>>
            ELSE IF ~ProtocolOk(u)
              THEN LET h == handleError(UnsupportedProtocol) IN
                   /\ task' = Failed(UnsupportedProtocol)
                   /\ pc' = "done"
                   /\ callerPc' = IF h.throws THEN "rejected" ELSE "returned"
                   /\ response' = h.resp
                   /\ timer' = Timer("cleared", "SCRAPE_TIMEOUT")
                   /\ UNCHANGED ops
              ELSE /\ ops' = Append(ops, "FILTER")
                   /\ pc' = "filter"
                   /\ callerPc' = "awaiting"
                   /\ timer' = Timer("armed", "SCRAPE_TIMEOUT")
                   /\ UNCHANGED <<task, response>>
  /\ UNCHANGED <<detailVars, block, loopVars, renderVars, browserVars>>

\* scrapeFromQuery(query) up to its first await
CallScrapeFromQuery ==
  /\ entry = "none"
  /\ entry' = "scrapeFromQuery"
  /\ \E u \in Urls :
       /\ url' = u
       /\ IF ~u.valid
            THEN /\ callerPc' = "returned"
                 /\ response' = Resp(400, FALSE, "INVALID_URL")
                 /\ UNCHANGED <<pc, ops>>
            ELSE IF ~ProtocolOk(u)
              THEN /\ callerPc' = "returned"
                   /\ response' = Resp(400, FALSE, "UNSUPPORTED_PROTOCOL")
                   /\ pc' = "done"
                   /\ UNCHANGED ops
              ELSE /\ ops' = Append(ops, "FILTER")
                   /\ pc' = "filter"
                   /\ callerPc' = "awaiting"
                   /\ UNCHANGED response
  /\ UNCHANGED <<detailVars, block, loopVars, renderVars, browserVars, task, timer>>

StartRender_Light(ctx, heavy) ==
  /\ ops' = Append(ops, "RENDER")
  /\ renderCtx' = ctx
  /\ allowHeavy' = FALSE
  /\ runNo' = 0
  /\ pending' = Pending
  /\ pc' = "launch"

\* fetchWithPuppeteer(url, opts) is called: launchPuppeteer calls puppeteer.launch
StartRender(ctx, heavy) ==
  /\ ops' = Append(ops, "RENDER")
  /\ renderCtx' = ctx
  /\ allowHeavy' = heavy
  /\ runNo' = 0
  /\ pending' = Pending
  /\ pc' = "launch"

\* fetchRawHtml(url) up to its first await
CallFetchRawHtml ==
  /\ entry = "none"
  /\ entry' = "fetchRawHtml"
  /\ \E u \in {x \in Urls : x.valid} :
       /\ url' = u
       /\ IF shouldUsePuppeteer(u)
            THEN StartRender("raw", TRUE)
            ELSE /\ ops' = Append(ops, "GET")
                 /\ pc' = "get"
                 /\ UNCHANGED renderVars
  /\ callerPc' = "direct"
  /\ UNCHANGED <<detailVars, block, loopVars, browserVars, task, response, timer>>

\* fetchPage(url) up to its first await
fetchPage ==
  IF shouldUsePuppeteer(url)
    THEN /\ StartRender("direct", TRUE)
         /\ UNCHANGED loopVars
    ELSE /\ attemptNo' = 0
         /\ lastError' = NoError
         /\ resp' = NoResp
         /\ pc' = "pause"
         /\ UNCHANGED <<ops, renderVars>>

\* await isBlockedHost(hostname) returns
FilterReturns ==
  /\ pc = "filter"
  /\ \E v \in isBlockedHost(url.hostname) :
       /\ block' = v
       /\ IF entry = "scrapeFromQuery"
            THEN /\ IF v.blocked
                      THEN /\ callerPc' = "returned"
                           /\ response' = Resp(400, FALSE, v.reason)
                           /\ pc' = "done"
                           /\ UNCHANGED ops
                      ELSE /\ ops' = Append(ops, "GET")
                           /\ pc' = "get"
                           /\ UNCHANGED <<callerPc, response>>
                 /\ UNCHANGED <<loopVars, renderVars, task, timer>>
            ELSE IF v.blocked
              THEN /\ Settle(Failed(PlainError(
                        <<IF v.reason = NoReason THEN "BLOCKED_HOST" ELSE v.reason>>)))
                   /\ UNCHANGED <<loopVars, ops, renderVars>>
              ELSE /\ fetchPage
                   /\ UNCHANGED <<task, callerVars>>
  /\ UNCHANGED <<detailVars, entry, url, browserVars>>

-----------------------------------------------------------------------------
(* Lightweight transport *)

\* fetchPage: humanPause(800, 2500) is over, axios.get is called
PauseElapses ==
  /\ pc = "pause"
  /\ ops' = Append(ops, "GET")
  /\ resp' = NoResp
  /\ pc' = "get"
  /\ UNCHANGED <<detailVars, entry, url, block, attemptNo, lastError, renderVars, browserVars,
                 task, callerVars>>

\* fetchPage: axios.get resolves (validateStatus accepts every status)
FetchPageResponds ==
  /\ pc = "get"
  /\ entry \in Wrapped
  /\ \E status \in Statuses, sig \in BOOLEAN, len \in BodyLengths :
       /\ resp' = Response(status, sig, len)
       /\ IF StatusOk(status)
            THEN /\ Settle(Ok)
                 /\ UNCHANGED <<attemptNo, lastError, ops, renderVars>>
            ELSE IF SoftBlock(status, sig)
              THEN /\ StartRender("softblock", FALSE)
                   /\ UNCHANGED <<attemptNo, lastError, task, callerVars>>
              ELSE /\ lastError' = StatusError(status)
                   /\ pc' = "backoff"
                   /\ UNCHANGED <<attemptNo, ops, renderVars, task, callerVars>>
  /\ UNCHANGED <<detailVars, entry, url, block, browserVars>>

\* fetchPage: axios.get rejects; the loop's catch keeps the error
FetchPageGetFails ==
  /\ pc = "get"
  /\ entry \in Wrapped
  /\ \E e \in AxiosFailures : lastError' = e
  /\ pc' = "backoff"
  /\ UNCHANGED <<detailVars, entry, url, block, attemptNo, resp, ops, renderVars, browserVars,
                 task, callerVars>>

\* fetchPage: the backoff pause is over; next iteration or throw lastError
BackoffElapses ==
  /\ pc = "backoff"
  /\ attemptNo' = attemptNo + 1
  /\ IF MoreAttempts(attemptNo + 1)
       THEN /\ pc' = "pause"
            /\ UNCHANGED <<task, callerVars>>
       ELSE Settle(Failed(ScrapeUrlCatch(
              IF lastError = NoError THEN PlainError(<<"REQUEST_FAILED">>) ELSE lastError)))
  /\ UNCHANGED <<detailVars, entry, url, block, lastError, resp, ops, renderVars, browserVars>>

\* fetchRawHtml: axios.get resolves
RawResponds ==
  /\ pc = "get"
  /\ entry = "fetchRawHtml"
  /\ \E status \in Statuses, sig \in BOOLEAN, len \in BodyLengths :
       /\ resp' = Response(status, sig, len)
       /\ IF (StatusOk(status) /\ sig) \/ (~StatusOk(status) /\ RawSoftBlock(status))
            THEN /\ StartRender("raw", TRUE)
                 /\ UNCHANGED <<task, callerVars>>
            ELSE /\ Settle(IF StatusOk(status)
                             THEN Ok
                             ELSE Failed(PlainError(
                                    <<"HTTP_ERROR", ": ", "STATUS_", ToString(status)>>)))
                 /\ UNCHANGED <<ops, renderVars>>
  /\ UNCHANGED <<detailVars, entry, url, block, attemptNo, lastError, browserVars>>

\* fetchRawHtml: axios.get rejects and nothing catches it
RawGetFails ==
  /\ pc = "get"
  /\ entry = "fetchRawHtml"
  /\ \E e \in AxiosFailures : Settle(Failed(e))
  /\ UNCHANGED <<detailVars, entry, url, block, loopVars, ops, renderVars, browserVars>>

\* scrapeFromQuery's catch: status from the Axios error, 500 when out of range
QueryFailure(e, status) ==
  Resp(IF status >= 400 /\ status < 600 THEN status ELSE 500, FALSE,
       IF e.code = "" THEN "AXIOS_ERROR" ELSE e.code)

\* scrapeFromQuery: axios.get resolves, or rejects for a refused status
QueryResponds ==
  /\ pc = "get"
  /\ entry = "scrapeFromQuery"
  /\ \E status \in Statuses, sig \in BOOLEAN, len \in BodyLengths :
       /\ resp' = Response(status, sig, len)
       /\ response' = IF StatusOk(status)
                        THEN Resp(200, TRUE, "")
                        ELSE QueryFailure(
                               Err(TRUE,
                                   IF status >= 500 THEN "ERR_BAD_RESPONSE"
                                                    ELSE "ERR_BAD_REQUEST",
                                   <<"Request failed with status code ", ToString(status)>>),
                               status)
  /\ callerPc' = "returned"
  /\ pc' = "done"
  /\ UNCHANGED <<detailVars, entry, url, block, attemptNo, lastError, ops, renderVars, browserVars,
                 task, timer>>

\* scrapeFromQuery: axios.get rejects without a response
QueryGetFails ==
  /\ pc = "get"
  /\ entry = "scrapeFromQuery"
  /\ \E e \in AxiosFailures : response' = QueryFailure(e, 500)
  /\ callerPc' = "returned"
  /\ pc' = "done"
  /\ UNCHANGED <<detailVars, entry, url, block, loopVars, ops, renderVars, browserVars, task, timer>>

-----------------------------------------------------------------------------
(* Rendering transport *)

\* fetchWithPuppeteer returns or throws res to its call site
EndRender(res) ==
  IF renderCtx = "softblock" /\ res.state = "err"
    THEN \* thrown inside the retry loop's try: caught like a failed attempt
         /\ lastError' = res.err
         /\ pc' = "backoff"
         /\ UNCHANGED <<attemptNo, resp, task, callerVars>>
    ELSE /\ Settle(IF renderCtx # "raw" /\ res.state = "err"
                     THEN Failed(ScrapeUrlCatch(res.err))
                     ELSE res)
         /\ UNCHANGED loopVars

\* launchPuppeteer: puppeteer.launch resolves with a browser
LaunchResolves ==
  /\ pc = "launch"
  /\ launched' = launched + 1
  /\ cur' = launched + 1
  /\ open' = open \cup {launched + 1}
  /\ pc' = "setup"
  /\ UNCHANGED <<detailVars, entry, url, block, loopVars, ops, renderVars, closed, task, callerVars>>

\* launchPuppeteer: puppeteer.launch rejects
LaunchFails ==
  /\ pc = "launch"
  /\ EndRender(Failed(PlainError(<<"Failed to launch the browser process">>)))
  /\ UNCHANGED <<detailVars, entry, url, block, ops, renderVars, browserVars>>

\* launchPuppeteer: newPage, setUserAgent, setExtraHTTPHeaders and
\* setRequestInterception succeed; fetchWithPuppeteer starts run()
SetupCompletes ==
  /\ pc = "setup"
  /\ runNo' = 1
  /\ pc' = "run"
  /\ UNCHANGED <<detailVars, entry, url, block, loopVars, ops, renderCtx, allowHeavy, pending,
                 browserVars, task, callerVars>>

\* launchPuppeteer: one of the page-setup calls rejects; launchPuppeteer is
\* awaited outside fetchWithPuppeteer's try/finally
SetupFails ==
  /\ pc = "setup"
  /\ EndRender(Failed(PlainError(<<"Protocol error: Target closed">>)))
  /\ UNCHANGED <<detailVars, entry, url, block, ops, renderVars, browserVars>>

\* fetchWithPuppeteer: run() returns page.content()
RunReturns ==
  /\ pc = "run"
  /\ pending' = Ok
  /\ pc' = "closing"
  /\ UNCHANGED <<detailVars, entry, url, block, loopVars, ops, renderCtx, allowHeavy, runNo,
                 browserVars, task, callerVars>>

\* fetchWithPuppeteer: run() throws; retried once after a destroyed context
RunThrows ==
  /\ pc = "run"
  /\ \E e \in { ContextDestroyed,
                PlainError(<<"Navigation ", "timeout", " of 120000 ms exceeded">>),
                PlainError(<<"net::ERR_CONNECTION_RESET">>) } :
       IF IsContextDestroyed(e) /\ runNo = 1
         THEN /\ pc' = "retryWait"
              /\ UNCHANGED pending
         ELSE /\ pending' = Failed(e)
              /\ pc' = "closing"
  /\ UNCHANGED <<detailVars, entry, url, block, loopVars, ops, renderCtx, allowHeavy, runNo,
                 browserVars, task, callerVars>>

RetryWaitElapses_Uncounted ==
  /\ pc = "retryWait"
  /\ pc' = "run"
  /\ UNCHANGED <<detailVars, entry, url, block, loopVars, ops, renderCtx, allowHeavy, runNo,
                 pending, browserVars, task, callerVars>>

\* fetchWithPuppeteer: the 600 ms wait before the second run() is over
RetryWaitElapses ==
  /\ pc = "retryWait"
  /\ runNo' = runNo + 1
  /\ pc' = "run"
  /\ UNCHANGED <<detailVars, entry, url, block, loopVars, ops, renderCtx, allowHeavy, pending,
                 browserVars, task, callerVars>>

\* fetchWithPuppeteer: finally { await browser.close() }, then return or throw
BrowserCloses ==
  /\ pc = "closing"
  /\ open' = open \ {cur}
  /\ closed' = Append(closed, cur)
  /\ EndRender(pending)
  /\ UNCHANGED <<detailVars, entry, url, block, ops, renderVars, launched, cur>>

-----------------------------------------------------------------------------

Next ==
  \/ CallExtraction
  \/ CallScrapeFromQuery
  \/ CallFetchRawHtml
  \/ FilterReturns
  \/ PauseElapses
  \/ FetchPageResponds
  \/ FetchPageGetFails
  \/ BackoffElapses
  \/ RawResponds
  \/ RawGetFails
  \/ QueryResponds
  \/ QueryGetFails
  \/ LaunchResolves
  \/ LaunchFails
  \/ SetupCompletes
  \/ SetupFails
  \/ RunReturns
  \/ RunThrows
  \/ RetryWaitElapses
  \/ BrowserCloses
  \/ TimerFires
  \/ GeminiResolves
  \/ GeminiFails

Spec == Init /\ [][Next]_vars

\* the steps of the scrape itself: every awaited request, browser operation
\* and timed pause
ScrapeStep ==
  \/ FilterReturns
  \/ PauseElapses
  \/ FetchPageResponds
  \/ FetchPageGetFails
  \/ BackoffElapses
  \/ RawResponds
  \/ RawGetFails
  \/ QueryResponds
  \/ QueryGetFails
  \/ LaunchResolves
  \/ LaunchFails
  \/ SetupCompletes
  \/ SetupFails
  \/ RunReturns
  \/ RunThrows
  \/ RetryWaitElapses
  \/ BrowserCloses

\* every awaited operation of the scrape completes
SpecLive == Init /\ [][Next]_vars /\ WF_vars(ScrapeStep)

-----------------------------------------------------------------------------
(* WebScraperService.fetchWithPuppeteer, step by step: run(), the readiness
   poll of waitForRealContent and safeEvaluate. The browser is launched; its
   launch, set-up and close are the actions of Spec above. *)

\* samples one waitForRealContent call can take before its 25 s deadline
MaxSamples == 3

\* document.title, lower-cased token by token as the /i flag compares it
ToLower(tok) ==
  CASE tok = "Un momento" -> "un momento"
    [] tok = ".SVG" -> ".svg"
    [] tok = "Casa en venta" -> "casa en venta"
    [] tok = "Inmuebles24" -> "inmuebles24"
    [] OTHER -> tok

LowerCase(s) == [i \in 1..Len(s) |-> ToLower(s[i])]

InterstitialTitle == <<"Un momento", "...">>

NormalTitle == <<"Casa en venta", " | ", "Inmuebles24">>

\* the object safeEvaluate returns to waitForRealContent: { title, bodyLen }
PageState(title, bodyLen) == [title |-> title, bodyLen |-> bodyLen]

\* /inmuebles24\.com/i.test(hostname)
isI24(hostname) == Includes(LowerCase(hostname), <<"inmuebles24.com">>)

\* /un momento|checking your browser|verificando|please wait/i.test(state.title)
looksInterstitial(title) ==
  \E pat \in {<<"un momento">>, <<"checking your browser">>, <<"verificando">>,
              <<"please wait">>} :
    Includes(LowerCase(title), pat)

\* state.bodyLen > 1200
enoughBody(bodyLen) == bodyLen > 1200

\* if ((!looksInterstitial || !isI24) && enoughBody) return;
RealContent(hostname, st) ==
  (~looksInterstitial(st.title) \/ ~isI24(hostname)) /\ enoughBody(st.bodyLen)

\* if (isI24 && looksInterstitial && !reloaded)
ShouldReload(hostname, st, done) ==
  isI24(hostname) /\ looksInterstitial(st.title) /\ ~done

\* errors page.evaluate can reject with
EvaluateFailures ==
  { ContextDestroyed,
    PlainError(<<"Protocol error (Runtime.callFunctionOn): ", "Target closed">>),
    PlainError(<<"Evaluation failed">>) }

\* safeEvaluate: /Execution context was destroyed|Cannot find context|Target closed/i
transient(e) ==
  \E pat \in {<<"Execution context was destroyed">>, <<"Cannot find context">>,
              <<"Target closed">>} :
    Includes(e.message, pat)

max_Four == 3 + 1

\* safeEvaluate: const max = 3
max == 3

\* errors page.goto and page.content can reject with
PageFailures ==
  { ContextDestroyed,
    PlainError(<<"Navigation ", "timeout", " of 120000 ms exceeded">>) }

\* fetchWithPuppeteer is called for a URL; launchPuppeteer has resolved and
\* run() starts with page.goto
fetchWithPuppeteer ==
  /\ at = "idle"
  /\ \E h \in {PublicHost, PortalHost} : host' = h
  /\ at' = "goto"
  /\ runs' = 1
  /\ UNCHANGED <<besideRender, pollVars, html>>

\* run() threw e: the catch re-executes run() once when the context was
\* destroyed, otherwise the error leaves through finally { browser.close() }
RunThrew(e) ==
  IF IsContextDestroyed(e) /\ runs = 1
    THEN at' = "retry" /\ UNCHANGED html
    ELSE at' = "done" /\ html' = Failed(e)

\* page.goto resolves; the network-idle wait, the cookie click, the pauses,
\* the mouse move, the scroll and waitForSelector swallow their errors, and
\* waitForRealContent is entered: deadline and reloaded are set
GotoResolves ==
  /\ at = "goto"
  /\ at' = "poll"
  /\ samples' = <<>>
  /\ reloaded' = FALSE
  /\ pollReloads' = 0
  /\ ready' = "none"
  /\ UNCHANGED <<besideRender, host, runs, reloads, attempt, html>>

GotoThrows ==
  /\ at = "goto"
  /\ \E e \in PageFailures : RunThrew(e)
  /\ UNCHANGED <<besideRender, host, runs, pollVars>>

\* the catch's 600 ms wait is over: run() is executed again
RetryElapses ==
  /\ at = "retry"
  /\ runs' = runs + 1
  /\ at' = "goto"
  /\ UNCHANGED <<besideRender, host, pollVars, html>>

\* while (Date.now() < deadline): the deadline has not passed, safeEvaluate
\* is called
PollSamples ==
  /\ at = "poll"
  /\ Len(samples) < MaxSamples
  /\ at' = "evaluate"
  /\ attempt' = 0
  /\ UNCHANGED <<besideRender, host, runs, samples, reloaded, pollReloads, reloads,
                 ready, html>>

\* while (Date.now() < deadline): the deadline has passed (never before the
\* first sample), waitForRealContent returns and run() goes on to page.content
PollDeadline ==
  /\ at = "poll"
  /\ Len(samples) >= 1
  /\ ready' = "deadline"
  /\ at' = "content"
  /\ UNCHANGED <<besideRender, host, runs, samples, reloaded, pollReloads, reloads,
                 attempt, html>>

\* page.evaluate resolves with the page's state; waitForRealContent returns,
\* calls page.reload, or goes on to its pause
EvaluateReturns ==
  /\ at = "evaluate"
  /\ \E st \in {PageState(t, n) : t \in {InterstitialTitle, NormalTitle},
                                    n \in {0, 1200, 1201}} :
       /\ samples' = Append(samples, st)
       /\ IF RealContent(host, st)
            THEN /\ ready' = "ready"
                 /\ at' = "content"
                 /\ UNCHANGED <<pollReloads, reloads>>
            ELSE /\ UNCHANGED ready
                 /\ IF ShouldReload(host, st, reloaded)
                      THEN /\ at' = "reload"
                           /\ pollReloads' = pollReloads + 1
                           /\ reloads' = reloads + 1
                      ELSE /\ at' = "pollPause"
                           /\ UNCHANGED <<pollReloads, reloads>>
  /\ UNCHANGED <<besideRender, host, runs, reloaded, attempt, html>>

\* page.evaluate rejects: safeEvaluate waits and retries a transient error up
\* to max times, and throws otherwise, which ends run()
EvaluateThrows ==
  /\ at = "evaluate"
  /\ \E e \in EvaluateFailures :
       IF transient(e) /\ attempt < max
         THEN /\ attempt' = attempt + 1
              /\ UNCHANGED <<at, html>>
         ELSE /\ RunThrew(e)
              /\ UNCHANGED attempt
  /\ UNCHANGED <<besideRender, host, runs, samples, reloaded, pollReloads, reloads,
                 ready>>

\* try { await page.reload(...) } catch {}  reloaded = true
ReloadSettles ==
  /\ at = "reload"
  /\ reloaded' = TRUE
  /\ at' = "pollPause"
  /\ UNCHANGED <<besideRender, host, runs, samples, pollReloads, reloads, attempt,
                 ready, html>>

\* humanPause(400, 900) and the scroll, whose errors are swallowed
PollPauseElapses ==
  /\ at = "pollPause"
  /\ at' = "poll"
  /\ UNCHANGED <<besideRender, host, runs, pollVars, html>>

\* the optional extra wait, then page.content() resolves and the markup is
\* returned through finally { browser.close() }
ContentReturns ==
  /\ at = "content"
  /\ html' = Ok
  /\ at' = "done"
  /\ UNCHANGED <<besideRender, host, runs, pollVars>>

ContentThrows ==
  /\ at = "content"
  /\ \E e \in PageFailures : RunThrew(e)
  /\ UNCHANGED <<besideRender, host, runs, pollVars>>

NextRender ==
  \/ fetchWithPuppeteer
  \/ GotoResolves
  \/ GotoThrows
  \/ RetryElapses
  \/ PollSamples
  \/ PollDeadline
  \/ EvaluateReturns
  \/ EvaluateThrows
  \/ ReloadSettles
  \/ PollPauseElapses
  \/ ContentReturns
  \/ ContentThrows

SpecRender == Init /\ [][NextRender]_vars

-----------------------------------------------------------------------------
(* WebScraperService.parseHtml: extractImages and extractFigures. Attribute
   values and URLs are token sequences; <<>> is a missing or empty value, which
   the code does not tell apart (every test on it is a truthiness test). *)

\* top-level nodes of a document
MaxElements == 2

\* a token of white space
IsSpace(tok) == tok \in {" ", "  ", "\n  "}

RECURSIVE TrimStart(_)
TrimStart(s) ==
  IF s # <<>> /\ IsSpace(Head(s)) THEN TrimStart(Tail(s)) ELSE s

RECURSIVE TrimEnd(_)
TrimEnd(s) ==
  IF s # <<>> /\ IsSpace(s[Len(s)]) THEN TrimEnd(SubSeq(s, 1, Len(s) - 1)) ELSE s

\* String.prototype.trim
Trim(s) == TrimEnd(TrimStart(s))

\* text.replace(/\s+/g, ' '): every run of whitespace becomes one space
RECURSIVE ReplaceSpaces(_)
ReplaceSpaces(s) ==
  IF s = <<>> THEN <<>>
  ELSE IF IsSpace(Head(s))
         THEN <<" ">> \o ReplaceSpaces(TrimStart(s))
         ELSE <<Head(s)>> \o ReplaceSpaces(Tail(s))

\* text.replace(/\s+/g, ' ').trim()
CollapseWhitespace_NoTrim(s) == ReplaceSpaces(s)

CollapseWhitespace(s) == Trim(ReplaceSpaces(s))

\* raw.split(','): the pieces between the commas
RECURSIVE SplitComma(_)
SplitComma(s) ==
  IF \E i \in 1..Len(s) : s[i] = ","
    THEN LET i == SetMin({k \in 1..Len(s) : s[k] = ","})
         IN  <<SubSeq(s, 1, i - 1)>> \o SplitComma(SubSeq(s, i + 1, Len(s)))
    ELSE <<s>>

\* the first field of part.split(/\s+/, 2), part being trimmed
FirstField(s) ==
  IF \E i \in 1..Len(s) : IsSpace(s[i])
    THEN SubSeq(s, 1, SetMin({k \in 1..Len(s) : IsSpace(s[k])}) - 1)
    ELSE s

\* the second field of part.split(/\s+/, 2): undefined (<<>>) when there is none
SecondField(s) ==
  IF \E i \in 1..Len(s) : IsSpace(s[i])
    THEN FirstField(TrimStart(SubSeq(s, Len(FirstField(s)) + 1, Len(s))))
    ELSE <<>>

\* new URL(maybeUrl, baseUrl).toString(), baseUrl being
\* https://example.com/page; undefined (<<>>) when maybeUrl is missing or the
\* constructor throws
resolveUrl(maybeUrl) ==
  IF maybeUrl = <<>> THEN <<>>
  ELSE IF Head(maybeUrl) \in {"https://", "data:"}
         THEN IF Head(maybeUrl) = "https://" /\ Len(maybeUrl) = 1 THEN <<>> ELSE maybeUrl
  ELSE IF Head(maybeUrl) \in {"/a.jpg", "/w_400"}
         THEN <<"https://example.com">> \o maybeUrl
  ELSE <<"https://example.com", "/">> \o maybeUrl

\* s.startsWith('data:image/svg+xml') || /\.svg(?:$|[?#])/.test(s) ||
\* s.includes('image/svg+xml'), s being the URL in lower case
isSvgUrl(u) ==
  LET s == LowerCase(u) IN
  /\ u # <<>>
  /\ \/ SubSeq(s, 1, 2) = <<"data:", "image/svg+xml">>
     \/ \E i \in 1..Len(s) :
          s[i] = ".svg" /\ (i = Len(s) \/ s[i + 1] \in {"?v=1", "#top"})
     \/ Includes(s, <<"image/svg+xml">>)

SrcSetEntry(u, d) == [url |-> u, descriptor |-> d]

RECURSIVE MapParts(_)
MapParts(parts) ==
  IF parts = <<>> THEN <<>>
  ELSE LET part == Trim(Head(parts))
           abs == resolveUrl(FirstField(part))
       IN  (IF part # <<>> /\ abs # <<>>
              THEN <<SrcSetEntry(abs, SecondField(part))>>
              ELSE <<>>) \o MapParts(Tail(parts))

\* parseSrcSet(raw, baseUrl)
parseSrcSet(raw) ==
  IF raw = <<>> THEN <<>> ELSE MapParts(SplitComma(raw))

\* Number(attr): the number a decimal numeral denotes, NaN for anything else
Numerals == {0, 100, 150, 151, 400}

Num(n) == [defined |-> TRUE, value |-> n]

Undefined == [defined |-> FALSE, value |-> 0]

\* Number($el.attr('width')) || undefined
NumberOrUndefined(attr) ==
  IF \E n \in Numerals : ToString(n) = attr /\ n # 0
    THEN Num(CHOOSE n \in Numerals : ToString(n) = attr)
    ELSE Undefined

Decl(prop, value, unit) == [prop |-> prop, value |-> value, unit |-> unit]

\* cssPx(style, prop): the first `prop: <digits>px` declaration of the style
cssPx(style, prop) ==
  LET hits == {i \in 1..Len(style) :
                 /\ style[i].prop = prop
                 /\ style[i].unit = "px"
                 /\ \E n \in Numerals : ToString(n) = style[i].value}
  IN  IF hits = {} THEN Undefined
      ELSE Num(CHOOSE n \in Numerals : ToString(n) = style[SetMin(hits)].value)

\* widthAttr ?? widthStyle
Coalesce(a, b) == IF a.defined THEN a ELSE b

MIN_DIMENSION_PX == 150

\* an img element: its src, srcset, width, height and style attributes
ImgElement(src, srcset, width, height, style) ==
  [src |-> src, srcset |-> srcset, width |-> width, height |-> height, style |-> style]

\* ImageData: the fields the filter and the claims read
ImageData(src, absSrc, width, height, srcset) ==
  [src |-> src, absSrc |-> absSrc, width |-> width, height |-> height, srcset |-> srcset]

processImageElement(el) ==
  LET src == Trim(el.src)
      widthAttr == NumberOrUndefined(el.width)
      heightAttr == NumberOrUndefined(el.height)
      widthStyle == cssPx(el.style, "width")
      heightStyle == cssPx(el.style, "height")
  IN  ImageData(src, resolveUrl(src),
                Coalesce(widthAttr, widthStyle), Coalesce(heightAttr, heightStyle),
                SelectSeq(parseSrcSet(Trim(el.srcset)), LAMBDA e : ~isSvgUrl(e.url)))

isValidImage_NoSvgCheck(img) ==
  /\ ~(img.width.defined /\ img.width.value <= MIN_DIMENSION_PX)
  /\ ~(img.height.defined /\ img.height.value <= MIN_DIMENSION_PX)
  /\ img.absSrc # <<>> \/ Len(img.srcset) > 0

isValidImage(img) ==
  /\ ~(img.width.defined /\ img.width.value <= MIN_DIMENSION_PX)
  /\ ~(img.height.defined /\ img.height.value <= MIN_DIMENSION_PX)
  /\ ~(img.absSrc # <<>> /\ isSvgUrl(img.absSrc))
  /\ img.absSrc # <<>> \/ Len(img.srcset) > 0

ImageCallback(el) ==
  LET imageData == processImageElement(el)
  IN  IF isValidImage(imageData) THEN [defined |-> TRUE, value |-> imageData]
      ELSE [defined |-> FALSE, value |-> ImageData(<<>>, <<>>, Undefined, Undefined, <<>>)]

\* .get().filter(Boolean)
RECURSIVE Values(_)
Values(rs) ==
  IF rs = <<>> THEN <<>>
  ELSE (IF Head(rs).defined THEN <<Head(rs).value>> ELSE <<>>) \o Values(Tail(rs))

RECURSIVE MapImages(_)
MapImages(els) ==
  IF els = <<>> THEN <<>> ELSE <<ImageCallback(Head(els))>> \o MapImages(Tail(els))

\* input values
SrcA == <<"/a.jpg">>

SrcSvg == <<"x", ".SVG", "?v=1">>

\* a srcset attribute as the page writes it: its entries joined by ", "
RECURSIVE SrcSetText(_)
SrcSetText(entries) ==
  IF entries = <<>> THEN <<>>
  ELSE Head(entries).url \o <<" ">> \o Head(entries).descriptor
       \o (IF Len(entries) > 1 THEN <<",", " ">> \o SrcSetText(Tail(entries)) ELSE <<>>)

PlainEntries == <<SrcSetEntry(<<"b.jpg">>, <<"1x">>), SrcSetEntry(SrcA, <<"2x">>)>>

CdnEntries ==
  <<SrcSetEntry(<<"https://", "cdn.example.com", "/w_400", ",", "h_300", "/c.jpg">>, <<"1x">>)>>

SvgMixEntries == <<SrcSetEntry(<<"x", ".svg">>, <<"1x">>), SrcSetEntry(<<"b.jpg">>, <<"2x">>)>>

SvgOnlyEntries == <<SrcSetEntry(<<"x", ".svg">>, <<"1x">>)>>

EntryLists == {PlainEntries, CdnEntries, SvgMixEntries, SvgOnlyEntries}

\* img elements that differ in their dimensions, and in their sources
Imgs ==
  { ImgElement(SrcA, <<>>, w, h, st) :
      w \in {"", "0", "150", "151"}, h \in {"", "100"}, st \in { <<>>,
                <<Decl("width", "100", "px")>>,
                <<Decl("width", "50", "%"), Decl("height", "400", "px"),
                  Decl("width", "400", "px")>> } }
  \cup { ImgElement(src, <<>>, "", "", <<>>) :
      src \in { <<>>, SrcSvg, <<"data:", "image/svg+xml", ",", "%3Csvg%3E">>,
                <<"https://">>, <<" ", "/a.jpg", " ">> } }
  \cup { ImgElement(<<>>, SrcSetText(es), "", "", <<>>) : es \in EntryLists }
  \cup { ImgElement(src, SrcSetText(es), "", "", <<>>) :
           src \in {SrcSvg, SrcA}, es \in {PlainEntries, SvgOnlyEntries} }
  \cup { ImgElement(<<>>, SrcSetText(PlainEntries), "400", "400", <<>>),
         ImgElement(<<>>, SrcSetText(PlainEntries), "100", "", <<>>) }

FigureImgs ==
  { <<>>,
    <<ImgElement(<<"x", ".svg">>, <<>>, "", "", <<>>)>>,
    <<ImgElement(SrcA, <<>>, "400", "", <<>>)>>,
    <<ImgElement(SrcA, <<>>, "0", "", <<>>)>> }

Nodes ==
  {[kind |-> "img", imgs |-> <<el>>, figcaption |-> <<>>] : el \in Imgs}
  \cup {[kind |-> "figure", imgs |-> els, figcaption |-> c] :
          c \in {<<>>, <<"Cap">>, <<"\n  ", "Living", "  ", "\n  ", "room", " ">>},
          els \in FigureImgs}

Documents == UNION {[1..n -> Nodes] : n \in 0..MaxElements}

\* $('img'): the img elements in document order, those of figures included
RECURSIVE AllImgs(_)
AllImgs(doc) ==
  IF doc = <<>> THEN <<>> ELSE Head(doc).imgs \o AllImgs(Tail(doc))

\* $('figure'): the figure elements in document order
AllFigures(doc) == SelectSeq(doc, LAMBDA node : node.kind = "figure")

FigureData(caption, imgs) == [caption |-> caption, images |-> imgs]

\* extractFigures: the map callback for one figure
FigureCallback(fig) ==
  FigureData(CollapseWhitespace(fig.figcaption), Values(MapImages(fig.imgs)))

\* parseHtml has loaded a document and removed the unwanted elements
InitNormalizer ==
  /\ AcquisitionIdle
  /\ RenderIdle
  /\ RetryIdle
  /\ TitleIdle
  /\ ConcurrentIdle
  /\ TextIdle
  /\ markup \in Documents
  /\ np = "images"
  /\ mapped = <<>>
  /\ images = <<>>
  /\ figures = <<>>

\* extractImages: the map callback runs on the next img
ImageMapped ==
  /\ np = "images"
  /\ Len(mapped) < Len(AllImgs(markup))
  /\ mapped' = Append(mapped, ImageCallback(AllImgs(markup)[Len(mapped) + 1]))
  /\ UNCHANGED <<besideNormalizer, markup, np, images, figures>>

\* extractImages returns: .get().filter(Boolean)
extractImages ==
  /\ np = "images"
  /\ Len(mapped) = Len(AllImgs(markup))
  /\ images' = Values(mapped)
  /\ np' = "figures"
  /\ UNCHANGED <<besideNormalizer, markup, mapped, figures>>

\* extractFigures: the map callback runs on the next figure
FigureMapped ==
  /\ np = "figures"
  /\ Len(figures) < Len(AllFigures(markup))
  /\ figures' = Append(figures, FigureCallback(AllFigures(markup)[Len(figures) + 1]))
  /\ UNCHANGED <<besideNormalizer, markup, np, mapped, images>>

\* extractFigures returns and parseHtml returns the ScrapedData
extractFigures ==
  /\ np = "figures"
  /\ Len(figures) = Len(AllFigures(markup))
  /\ np' = "done"
  /\ UNCHANGED <<besideNormalizer, markup, mapped, images, figures>>

NextNormalizer ==
  \/ ImageMapped
  \/ extractImages
  \/ FigureMapped
  \/ extractFigures

SpecNormalizer == InitNormalizer /\ [][NextNormalizer]_vars

-----------------------------------------------------------------------------
\* The lightweight loop of fetchPage, attempt by attempt: the identity each GET
\* presents and the time slept after each failed attempt.

\* the User-Agent strings, as the tokens that tell them apart
USER_AGENTS ==
  << <<"Windows NT 10.0", "Chrome/120.0.0.0", "Safari/537.36">>,
     <<"Macintosh", "Version/17.0", "Safari/605.1.15">>,
     <<"Windows NT 10.0", "rv:121.0", "Firefox/121.0">>,
     <<"X11; Linux x86_64", "Chrome/120.0.0.0", "Safari/537.36">>,
     <<"Windows NT 10.0", "Chrome/120.0.0.0", "Safari/537.36", "Edg/120.0.0.0">>,
     <<"Linux; Android 10; SM-G973F", "Chrome/120.0.0.0", "Mobile", "Safari/537.36">>,
     <<"iPhone", "Version/17.0", "Mobile", "Safari/604.1">>,
     <<"iPad", "Version/17.0", "Mobile", "Safari/604.1">>,
     <<"X11; CrOS x86_64", "Chrome/120.0.0.0", "Safari/537.36">>,
     <<"X11; Ubuntu; Linux x86_64", "rv:121.0", "Firefox/121.0">> >>

MOBILE_UA == <<"Linux; Android 10; SM-G973F", "Chrome/120.0.0.0", "Mobile", "Safari/537.36">>

\* values of Math.random(), in thousandths: 0 <= r < 1
Randoms == {0, 500, 999}

\* Math.floor(r * n) for r in thousandths
FloorTimes(r, n) == (r * n) \div 1000

\* Math.min(5000, base * Math.pow(2, attemptNo)) + Math.floor(Math.random() * 400)
Backoff(n, r) ==
  LET base == 800
      exp  == base * 2 ^ n
  IN  (IF exp < 5000 THEN exp ELSE 5000) + FloorTimes(r, 400)

\* humanPause(minMs, maxMs): minMs + Math.random() * (maxMs - minMs), the
\* whole milliseconds of it
humanPause(minMs, maxMs, r) == minMs + FloorTimes(r, maxMs - minMs)

\* const baseUA = USER_AGENTS[Math.floor(Math.random() * USER_AGENTS.length)]
DrawUserAgent ==
  /\ lp = "idle"
  /\ \E r \in Randoms : baseUA' = USER_AGENTS[FloorTimes(r, Len(USER_AGENTS)) + 1]
  /\ lp' = "get"
  /\ UNCHANGED <<besideRetry, tryNo, userAgents, sleeps>>

\* humanPause(800, 2500), then axios.get with the attempt's User-Agent; the
\* response is 2xx/3xx or a soft-block whose rendering succeeds
AttemptReturns ==
  /\ lp = "get"
  /\ userAgents' = Append(userAgents, IF tryNo = 0 THEN baseUA ELSE MOBILE_UA)
  /\ lp' = "returned"
  /\ UNCHANGED <<besideRetry, tryNo, baseUA, sleeps>>

\* the same, and the attempt fails: the GET throws, the status is an error,
\* or the rendering of a soft-block throws
AttemptFails ==
  /\ lp = "get"
  /\ userAgents' = Append(userAgents, IF tryNo = 0 THEN baseUA ELSE MOBILE_UA)
  /\ lp' = "backoff"
  /\ UNCHANGED <<besideRetry, tryNo, baseUA, sleeps>>

\* the backoff after a failed attempt, attemptNo++ and the loop test
BackoffSleeps ==
  /\ lp = "backoff"
  /\ \E r \in Randoms, q \in Randoms :
       LET backoff == Backoff(tryNo, r)
       IN  sleeps' = Append(sleeps, humanPause(backoff, backoff + 600, q))
  /\ tryNo' = tryNo + 1
  /\ lp' = IF MoreAttempts(tryNo + 1) THEN "get" ELSE "thrown"
  /\ UNCHANGED <<besideRetry, baseUA, userAgents>>

NextRetry ==
  \/ DrawUserAgent
  \/ AttemptReturns
  \/ AttemptFails
  \/ BackoffSleeps

SpecRetry == Init /\ [][NextRetry]_vars

-----------------------------------------------------------------------------
\* The title in the two normalizers: WebScraperService.parseHtml and
\* scrapeFromQuery both load the markup, read $('title').first().text().trim()
\* and remove the unwanted elements, each in its own order.

\* the elements a page may hold, in document order: the tag, the element
\* (head, body or an svg of the body) it lies in, and its text
Pool ==
  << [tag |-> "title",  within |-> "head", text |-> <<" ", "Casa en venta", " ">>],
     [tag |-> "script", within |-> "head", text |-> <<"{}">>],
     [tag |-> "h1",     within |-> "body", text |-> <<"Casa en venta">>],
     [tag |-> "title",  within |-> "svg",  text |-> <<"icono">>],
     [tag |-> "title",  within |-> "body", text |-> <<"Inmuebles24">>] >>

\* the selector of the removal pass of each normalizer
Unwanted(n) ==
  LET common == {"script", "style", "noscript", "template", "svg", "canvas", "iframe",
                 "meta", "link"}
  IN  IF n = "parseHtml" THEN common ELSE common \cup {"head"}

\* $(selector).remove(): the matched elements go, and what lies in them
Remove(d, tags) == {i \in d : Pool[i].tag \notin tags /\ Pool[i].within \notin tags}

\* $('title').first().text().trim()
TitleOf(d) ==
  LET titles == {i \in d : Pool[i].tag = "title"}
  IN  IF titles = {} THEN <<>> ELSE Trim(Pool[SetMin(titles)].text)

\* parseHtml reads the title first, scrapeFromQuery removes first
FirstStep(n) == IF n = "parseHtml" THEN "title" ELSE "remove"

InitTitle ==
  /\ AcquisitionIdle
  /\ RenderIdle
  /\ NormalizerIdle
  /\ RetryIdle
  /\ ConcurrentIdle
  /\ TextIdle
  /\ normalizer \in {"parseHtml", "scrapeFromQuery"}
  /\ source \in SUBSET DOMAIN Pool
  /\ dom = source
  /\ tp = FirstStep(normalizer)
  /\ pageTitle = <<>>

\* const title = $('title').first().text().trim()
ReadTitle ==
  /\ tp = "title"
  /\ pageTitle' = TitleOf(dom)
  /\ tp' = IF FirstStep(normalizer) = "title" THEN "remove" ELSE "done"
  /\ UNCHANGED <<besideTitle, normalizer, source, dom>>

\* $('script,style,...').remove()
RemoveUnwanted ==
  /\ tp = "remove"
  /\ dom' = Remove(dom, Unwanted(normalizer))
  /\ tp' = IF FirstStep(normalizer) = "remove" THEN "title" ELSE "done"
  /\ UNCHANGED <<besideTitle, normalizer, source, pageTitle>>

NextTitle ==
  \/ ReadTitle
  \/ RemoveUnwanted

SpecTitle == InitTitle /\ [][NextTitle]_vars

-----------------------------------------------------------------------------
\* Concurrent scrapeUrl calls on the one instance ExtractionService holds.
\* Each call follows fetchPage's loop with its own locals; the responses it
\* will meet are fixed per call, so that its outcome can be compared with the
\* outcome of the same call run alone.

MaxCalls == 2

Calls == 1..MaxCalls

\* what a call meets: the answer to each of its GETs and the fate of each of
\* its renderings
Plans ==
  {[get |-> "ok", render |-> "ok"], [get |-> "error", render |-> "ok"],
   [get |-> "block", render |-> "ok"], [get |-> "block", render |-> "throws"]}

NoBrowser == <<0, 0>>

\* a call about to issue its first GET
Call(plan) ==
  [plan |-> plan, pc |-> "get", attemptNo |-> 0, browser |-> NoBrowser,
   rendered |-> "none", outcome |-> "pending"]

\* the end of a failed attempt: attemptNo++, then the loop test and the throw
AttemptFailed(call, error) ==
  IF MoreAttempts(call.attemptNo + 1)
    THEN [call EXCEPT !.pc = "get", !.attemptNo = @ + 1]
    ELSE [call EXCEPT !.pc = "done", !.attemptNo = @ + 1, !.outcome = error]

OwnBrowser_AnyOpen(c) ==
  LET opened == {b \in DOMAIN browsers : browsers[b].state = "open"}
  IN  IF opened = {} THEN calls[c].browser ELSE CHOOSE b \in opened : TRUE

\* the `browser` of the fetchWithPuppeteer invocation of call c: a const of
\* that invocation
OwnBrowser(c) == calls[c].browser

InitConcurrent ==
  /\ AcquisitionIdle
  /\ RenderIdle
  /\ NormalizerIdle
  /\ RetryIdle
  /\ TitleIdle
  /\ TextIdle
  /\ instance = Fields
  /\ calls \in [Calls -> {Call(p) : p \in Plans}]
  /\ browsers = <<>>

\* one attempt of the loop up to the answer of its GET
CallGets(c) ==
  /\ calls[c].pc = "get"
  /\ calls' = [calls EXCEPT ![c] =
       CASE @.plan.get = "ok"    -> [@ EXCEPT !.pc = "done", !.outcome = "ok:get"]
         [] @.plan.get = "block" -> [@ EXCEPT !.pc = "launch"]
         [] OTHER                -> AttemptFailed(@, "err:http")]
  /\ UNCHANGED <<besideConcurrent, instance, browsers>>

\* const { browser, page } = await this.launchPuppeteer(allowHeavy)
CallLaunches(c) ==
  /\ calls[c].pc = "launch"
  /\ LET b == <<c, calls[c].attemptNo>>
     IN  /\ browsers' = (b :> [state |-> "open", closedBy |-> 0]) @@ browsers
         /\ calls' = [calls EXCEPT ![c].browser = b, ![c].pc = "page", ![c].rendered = "none"]
  /\ UNCHANGED <<besideConcurrent, instance>>

\* run(): the page yields its markup, or throws; it throws when its browser is
\* closed
CallRenders(c) ==
  /\ calls[c].pc = "page"
  /\ calls' = [calls EXCEPT ![c].pc = "close", ![c].rendered =
       IF browsers[calls[c].browser].state = "open" /\ calls[c].plan.render = "ok"
         THEN "ok" ELSE "throws"]
  /\ UNCHANGED <<besideConcurrent, instance, browsers>>

\* finally { await browser.close() }, then fetchPage returns the markup or
\* catches the error and goes on to the next attempt
CallCloses(c) ==
  /\ calls[c].pc = "close"
  /\ browsers' = [browsers EXCEPT ![OwnBrowser(c)] = [state |-> "closed", closedBy |-> c]]
  /\ calls' = [calls EXCEPT ![c] =
       IF @.rendered = "ok"
         THEN [@ EXCEPT !.pc = "done", !.outcome = "ok:render"]
         ELSE AttemptFailed(@, "err:render")]
  /\ UNCHANGED <<besideConcurrent, instance>>

NextConcurrent ==
  \/ \E c \in Calls : CallGets(c)
  \/ \E c \in Calls : CallLaunches(c)
  \/ \E c \in Calls : CallRenders(c)
  \/ \E c \in Calls : CallCloses(c)

SpecConcurrent == InitConcurrent /\ [][NextConcurrent]_vars

-----------------------------------------------------------------------------
\* The text of parseHtml: the body text, collapsed and trimmed, then the
\* harvested JSON-LD, __NEXT_DATA__ and meta snippets, each cut to its cap.
\* A string is the sequence of its runs: n times the character c.

\* \s
IsBlank(run) == run.c \in {" ", "\n", "\t"}

\* String.prototype.slice(0, cap)
RECURSIVE Slice(_, _)
Slice(str, cap) ==
  IF str = <<>> \/ cap <= 0
    THEN <<>>
    ELSE IF Head(str).n <= cap
      THEN <<Head(str)>> \o Slice(Tail(str), cap - Head(str).n)
      ELSE <<[c |-> Head(str).c, n |-> cap]>>

\* String.prototype.trimStart()
RECURSIVE DropBlanks(_)
DropBlanks(str) ==
  IF str # <<>> /\ IsBlank(Head(str)) THEN DropBlanks(Tail(str)) ELSE str

\* String.prototype.trim()
RECURSIVE TrimRuns(_)
TrimRuns(str) ==
  LET lead == DropBlanks(str)
  IN  IF lead # <<>> /\ IsBlank(lead[Len(lead)])
        THEN TrimRuns(SubSeq(lead, 1, Len(lead) - 1))
        ELSE lead

\* String.prototype.replace(/\s+/g, ' ')
RECURSIVE CollapseRuns(_)
CollapseRuns(str) ==
  IF str = <<>>
    THEN <<>>
    ELSE IF IsBlank(Head(str))
      THEN <<[c |-> " ", n |-> 1]>> \o CollapseRuns(DropBlanks(str))
      ELSE <<Head(str)>> \o CollapseRuns(Tail(str))

\* .filter(Boolean).join('\n')
RECURSIVE JoinLines(_)
JoinLines(parts) ==
  IF parts = <<>>
    THEN <<>>
    ELSE IF Head(parts) = <<>>
      THEN JoinLines(Tail(parts))
      ELSE LET rest == JoinLines(Tail(parts))
           IN  IF rest = <<>> THEN Head(parts)
                              ELSE Head(parts) \o <<[c |-> "\n", n |-> 1]>> \o rest

Appended_Before(t, raw, cap) == TrimRuns(Slice(raw, cap) \o <<[c |-> "\n", n |-> 1]>> \o t)

\* text = `${text}\n${raw.slice(0, cap)}`.trim()
Appended(t, raw, cap) == TrimRuns(t \o <<[c |-> "\n", n |-> 1]>> \o Slice(raw, cap))

InitText ==
  /\ AcquisitionIdle
  /\ RenderIdle
  /\ NormalizerIdle
  /\ RetryIdle
  /\ TitleIdle
  /\ ConcurrentIdle
  /\ harvest \in
       [body : { <<>>,
                 << [c |-> "a", n |-> 12] >>,
                 << [c |-> "\n", n |-> 1], [c |-> " ", n |-> 4], [c |-> "a", n |-> 12],
                    [c |-> "\n", n |-> 2], [c |-> "\t", n |-> 1], [c |-> "b", n |-> 7],
                    [c |-> " ", n |-> 1] >> },
        jsonLd : { <<>>,
                   << << [c |-> "\n", n |-> 1], [c |-> "{", n |-> 1], [c |-> " ", n |-> 2],
                         [c |-> "j", n |-> 30], [c |-> "}", n |-> 1], [c |-> "\n", n |-> 1] >> >>,
                   << <<>>, << [c |-> "{", n |-> 1], [c |-> "j", n |-> 60000],
                               [c |-> "}", n |-> 1] >> >>,
                   << << [c |-> "{", n |-> 1], [c |-> "j", n |-> 30], [c |-> "}", n |-> 1] >>,
                      << [c |-> "[", n |-> 1], [c |-> "k", n |-> 30], [c |-> "]", n |-> 1] >> >> },
        nextData : { <<>>,
                     << << [c |-> "{", n |-> 1], [c |-> "p", n |-> 40], [c |-> "}", n |-> 1] >> >>,
                     << << [c |-> "{", n |-> 1], [c |-> "p", n |-> 50000],
                           [c |-> "}", n |-> 1] >> >> },
        metas : { <<>>,
                  << << [c |-> "o", n |-> 8], [c |-> ":", n |-> 1], [c |-> " ", n |-> 1],
                        [c |-> "t", n |-> 20] >> >>,
                  << << [c |-> "o", n |-> 8], [c |-> ":", n |-> 1], [c |-> " ", n |-> 1],
                        [c |-> "t", n |-> 1500] >>,
                     << [c |-> "d", n |-> 11], [c |-> ":", n |-> 1], [c |-> " ", n |-> 1],
                        [c |-> "u", n |-> 900] >> >> }]
  /\ pageText = <<>>
  /\ xp = "body"

\* let text = $('body').text().replace(/\s+/g, ' ').trim()
ReadBody ==
  /\ xp = "body"
  /\ pageText' = TrimRuns(CollapseRuns(harvest.body))
  /\ xp' = "jsonLd"
  /\ UNCHANGED <<besideText, harvest>>

\* if (jsonLdRaw) text = `${text}\n${jsonLdRaw.slice(0, 50000)}`.trim()
AppendJsonLd ==
  /\ xp = "jsonLd"
  /\ LET jsonLdRaw == JoinLines(harvest.jsonLd)
     IN  pageText' = IF jsonLdRaw # <<>> THEN Appended(pageText, jsonLdRaw, 50000) ELSE pageText
  /\ xp' = "nextData"
  /\ UNCHANGED <<besideText, harvest>>

\* if (nextDataRaw) text = `${text}\n${nextDataRaw.slice(0, 50000)}`.trim()
AppendNextData ==
  /\ xp = "nextData"
  /\ LET nextDataRaw == JoinLines(harvest.nextData)
     IN  pageText' = IF nextDataRaw # <<>> THEN Appended(pageText, nextDataRaw, 50000) ELSE pageText
  /\ xp' = "metas"
  /\ UNCHANGED <<besideText, harvest>>

\* if (metaSnippets.length) text = `${text}\n${metaSnippets.join('\n').slice(0, 2000)}`.trim()
AppendMetas ==
  /\ xp = "metas"
  /\ pageText' = IF harvest.metas # <<>>
               THEN Appended(pageText, JoinLines(harvest.metas), 2000)
               ELSE pageText
  /\ xp' = "done"
  /\ UNCHANGED <<besideText, harvest>>

NextText ==
  \/ ReadBody
  \/ AppendJsonLd
  \/ AppendNextData
  \/ AppendMetas

SpecText == InitText /\ [][NextText]_vars





-----------------------------------------------------------------------------
(* Properties *)

Count(op) == Cardinality({i \in DOMAIN ops : ops[i] = op})

Network == {"GET", "RENDER"}

Rendering == {"launch", "setup", "run", "retryWait", "closing"}

\* C1: for a hostname the host filter reports as blocked, the acquisition
\* (scrapeUrl behind scrapeOnly / extractFromUrl, and scrapeFromQuery) ends with
\* the BLOCKED_HOST outcome, and no HTTP GET is issued and no browser launched.
C1_BlockedHostOutcome ==
  block.blocked =>
    /\ \A i \in DOMAIN ops : ops[i] \notin Network
    /\ launched = 0
    /\ entry \in Wrapped => task.state = "err"
    /\ (callerPc = "returned" /\ timer.state # "fired") =>
          response = Resp(400, FALSE, "BLOCKED_HOST")

\* C2: a URL whose scheme is neither http: nor https: fails with
\* UNSUPPORTED_PROTOCOL as the first step: the host filter is not consulted, no
\* HTTP GET is issued and no browser is launched.
C2_UnsupportedProtocolFirst ==
  (entry \in Wrapped \cup {"scrapeFromQuery"} /\ url.valid
     /\ url.protocol \notin {"http:", "https:"}) =>
    /\ ops = <<>>
    /\ launched = 0
    /\ callerPc = "returned"
    /\ response = Resp(400, FALSE, "UNSUPPORTED_PROTOCOL")

C2_Witness ==
  /\ entry = "scrapeOnly"
  /\ url.protocol = "ftp:"
  /\ callerPc = "returned"
  /\ task.state = "err"

\* C3: fetchRawHtml consults the host filter before any network call: no HTTP
\* GET and no browser navigation precedes a host-filter check.
C3_RawFilterFirst ==
  entry = "fetchRawHtml" =>
    \A i \in DOMAIN ops :
      ops[i] \in Network => \E j \in 1..(i - 1) : ops[j] = "FILTER"

\* C4: when a lightweight attempt of scrapeUrl receives status 403, or a
\* non-2xx/3xx response with an anti-bot signature, the next step is a
\* rendering invocation: no status error is recorded or surfaced for that
\* response and no further lightweight attempt comes first.
C4_SoftBlockEscalates ==
  [][ ( /\ entry \in Wrapped
        /\ pc = "get"
        /\ resp' # NoResp
        /\ \/ resp'.status = 403
           \/ (~(resp'.status >= 200 /\ resp'.status < 400) /\ resp'.sig) )
      => ( /\ ops' = Append(ops, "RENDER")
           /\ pc' = "launch"
           /\ lastError' = lastError
           /\ attemptNo' = attemptNo
           /\ task' = task ) ]_vars

C4_Witness ==
  /\ entry \in Wrapped
  /\ resp.status = 403
  /\ ~resp.sig
  /\ pc = "launch"
  /\ ops = <<"FILTER", "GET", "RENDER">>

\* C5: one scrapeUrl call invokes the rendering transport at most once, and
\* after a rendering fallback has run there is no further lightweight attempt
\* and no second rendering.
C5_RenderAtMostOnce ==
  entry \in Wrapped =>
    /\ Count("RENDER") <= 1
    /\ \A i \in DOMAIN ops : \A j \in DOMAIN ops :
         (i < j /\ ops[i] = "RENDER") => ops[j] \notin Network

\* C6: if the scrape has not settled when the overall deadline expires,
\* scrapeOnly / extractFromUrl return REQUEST_TIMEOUT with status 504, whatever
\* the transport is doing then and whatever the abandoned scrape does later.
C6_DeadlineYieldsTimeout ==
  (timer.state = "fired" /\ timer.tag = "SCRAPE_TIMEOUT") =>
    /\ callerPc = "returned"
    /\ response = Resp(504, FALSE, "REQUEST_TIMEOUT")

C6_Witness ==
  /\ timer.state = "fired"
  /\ timer.tag = "SCRAPE_TIMEOUT"
  /\ pc = "done"
  /\ task.state = "ok"
  /\ Count("RENDER") = 1

\* C7: when the overall deadline expires, every browser session of the call is
\* closed and every in-flight HTTP request is aborted before the timeout
\* outcome is returned.
C7_TeardownOnDeadline ==
  (timer.state = "fired" /\ timer.tag = "SCRAPE_TIMEOUT") =>
    /\ open = {}
    /\ pc # "get"
    /\ pc \notin Rendering

\* C8: every browser launched by a rendering invocation is closed exactly once
\* by the time the invocation ends, on every exit path.
C8_BrowserClosedOnEveryExit ==
  pc \notin Rendering =>
    /\ open = {}
    /\ \A b \in 1..launched : Cardinality({i \in DOMAIN closed : closed[i] = b}) = 1

\* C9: scrapeOnly and extractFromUrl never reject: handleError turns every
\* error scrapeUrl can throw into an ApiResponse with ok = false.
C9_NeverRejects ==
  entry \in Wrapped =>
    /\ callerPc # "rejected"
    /\ (callerPc = "returned" /\ task.state = "err" /\ timer.state # "fired") =>
          (~response.ok /\ response.status >= 400)

StatusResponse(n) ==
  IF n = 403 THEN Resp(403, FALSE, "FORBIDDEN")
  ELSE IF n = 404 THEN Resp(404, FALSE, "NOT_FOUND")
  ELSE IF n = 429 THEN Resp(429, FALSE, "TOO_MANY_REQUESTS")
  ELSE Resp(500, FALSE, "HTTP_ERROR")

\* C10: when the lightweight path exhausts its retries on a terminal status n,
\* the response of scrapeOnly preserves the code: 403 FORBIDDEN, 404 NOT_FOUND,
\* 429 TOO_MANY_REQUESTS, HTTP_ERROR for any other n.
C10_StatusPreserved ==
  \A n \in Statuses :
    ( /\ entry = "scrapeOnly"
      /\ task = Failed(StatusError(n))
      /\ timer.state # "fired" )
    => (callerPc = "returned" /\ response = StatusResponse(n))

\* C15: one scrapeUrl call issues at most 4 lightweight HTTP GET requests,
\* whatever the responses and errors, rendering failures inside the retry
\* loop included.
C15_AtMostFourGets ==
  entry \in Wrapped => Count("GET") <= 4

C15_Witness ==
  /\ entry \in Wrapped
  /\ Count("GET") = 4
  /\ Count("RENDER") >= 1
  /\ pc = "done"

\* C16: when all lightweight attempts of scrapeUrl have failed without a
\* soft-block classification, the rendering fallback runs before the terminal
\* failure is produced.
C16_ExhaustionEscalates ==
  ( /\ entry \in Wrapped
    /\ task.state = "err"
    /\ Count("GET") = maxAttempts )
  => Count("RENDER") >= 1

LastSample == samples[Len(samples)]

\* C11: when the readiness poll reaches its deadline while the page still
\* shows an interstitial title or too little body text, the rendering does
\* not return the page's markup as a success (the acquisition ends with the
\* anti-bot outcome instead).
C11_PersistentBlockIsNotSuccess ==
  ( /\ at = "done"
    /\ ready = "deadline"
    /\ looksInterstitial(LastSample.title) \/ ~enoughBody(LastSample.bodyLen) )
  => html.state # "ok"

\* C12: on every hostname the readiness poll reports the page ready only at a
\* sample whose title is not an interstitial title and whose body text is
\* longer than 1200.
C12_ReadyMeansRealContent ==
  ready = "ready"
  => /\ ~looksInterstitial(LastSample.title)
     /\ LastSample.bodyLen > 1200

\* C13: one fetchWithPuppeteer call, its retry of run() included, calls
\* page.reload at most once.
C13_AtMostOneReload ==
  reloads <= 1

Script ==
  << PageState(InterstitialTitle, 0), PageState(InterstitialTitle, 0),
     PageState(NormalTitle, 1201) >>

\* C14: on the sampled sequence [interstitial/short, interstitial/short,
\* normal/long] the readiness poll performs exactly one reload and reports
\* ready at the third sample and not earlier, on any hostname.
C14_ScriptedPoll ==
  /\ samples = Script => ready = "ready" /\ pollReloads = 1
  /\ (Len(samples) \in 1..2 /\ samples = SubSeq(Script, 1, Len(samples)))
       => ready # "ready"

\* the number a width / height attribute states, 0 included
StatedNumber(attr) ==
  IF \E n \in Numerals : ToString(n) = attr
    THEN Num(CHOOSE n \in Numerals : ToString(n) = attr)
    ELSE Undefined

\* the effective dimension of an img: its attribute, else its inline CSS px
Effective(el, prop) ==
  Coalesce(StatedNumber(IF prop = "width" THEN el.width ELSE el.height),
           cssPx(el.style, prop))

SmallDimension(el) ==
  \E prop \in {"width", "height"} :
    Effective(el, prop).defined /\ Effective(el, prop).value <= 150

\* the ImageData of the document: top-level images and the images of figures
Descriptors ==
  {images[i] : i \in 1..Len(images)}
  \cup UNION {{figures[j].images[k] : k \in 1..Len(figures[j].images)} : j \in 1..Len(figures)}

\* C17: an img whose effective width or height is a number at or below 150,
\* 0 included, has no descriptor in the images list (the map callback of its
\* position returned none) nor in its figure's images list; every descriptor
\* that declares a dimension declares it above 150.
C17_SmallImagesExcluded ==
  /\ \A i \in 1..Len(mapped) :
       SmallDimension(AllImgs(markup)[i]) => ~mapped[i].defined
  /\ \A j \in 1..Len(figures) :
       (\A k \in 1..Len(AllFigures(markup)[j].imgs) :
          SmallDimension(AllFigures(markup)[j].imgs[k]))
       => figures[j].images = <<>>
  /\ \A d \in Descriptors :
       /\ d.width.defined => d.width.value > 150
       /\ d.height.defined => d.height.value > 150

\* a URL that refers to an SVG: by its extension, its MIME hint or its data prefix
SvgReference(u) ==
  \E i \in 1..Len(u) : LowerCase(u)[i] \in {".svg", "image/svg+xml"}

\* C18: every ImageData of the document has an absolute URL or at least one
\* srcset entry; its absolute URL is not an SVG URL and none of its srcset
\* entries is an SVG URL.
C18_DescriptorsHaveNonSvgSource ==
  \A d \in Descriptors :
    /\ d.absSrc # <<>> \/ Len(d.srcset) >= 1
    /\ ~SvgReference(d.absSrc)
    /\ \A k \in 1..Len(d.srcset) :
         d.srcset[k].url # <<>> /\ ~SvgReference(d.srcset[k].url)

C18_Witness ==
  /\ np = "done"
  /\ \E i, k \in 1..Len(mapped) :
       /\ AllImgs(markup)[i].src = SrcSvg
       /\ ~mapped[i].defined
       /\ AllImgs(markup)[k].srcset = SrcSetText(SvgMixEntries)
       /\ mapped[k].defined
       /\ Len(mapped[k].value.srcset) = 1
       /\ mapped[k].value \in Descriptors

\* the entries of a srcset as the claim expects them: each URL resolved, in order
Resolved(entries) ==
  [k \in 1..Len(entries) |-> SrcSetEntry(resolveUrl(entries[k].url), entries[k].descriptor)]

ResolvableNonSvg(entries) ==
  \A k \in 1..Len(entries) :
    resolveUrl(entries[k].url) # <<>> /\ ~SvgReference(entries[k].url)

\* C19: an img with no src, a srcset of N resolvable non-SVG entries and no
\* dimension at or below the threshold yields one ImageData with no absolute
\* URL and the N entries, each resolved against the base URL, in srcset order.
C19_SrcsetOnlyImage ==
  \A i \in 1..Len(mapped) : \A es \in EntryLists :
    LET el == AllImgs(markup)[i] IN
    ( /\ el.src = <<>>
      /\ el.srcset = SrcSetText(es)
      /\ ResolvableNonSvg(es)
      /\ ~SmallDimension(el) )
    => /\ mapped[i].defined
       /\ mapped[i].value.absSrc = <<>>
       /\ mapped[i].value.srcset = Resolved(es)

NotSpace(tok) == ~IsSpace(tok)

\* a caption with its whitespace collapsed: the words of the figcaption in
\* order, single spaces between them, none at either end
Collapsed(caption, text) ==
  /\ SelectSeq(caption, NotSpace) = SelectSeq(text, NotSpace)
  /\ \A i \in 1..Len(caption) :
       IsSpace(caption[i])
       => /\ caption[i] = " "
          /\ 1 < i /\ i < Len(caption)
          /\ ~IsSpace(caption[i + 1])

OnlySvgImages(fig) ==
  \A k \in 1..Len(fig.imgs) : SvgReference(fig.imgs[k].src)

\* C20: every figure of the markup yields one FigureData, in document order,
\* with its whitespace-collapsed caption, also when all its images are
\* filtered out: a figure whose only image is an SVG has its caption and no
\* images.
C20_OneFigurePerElement ==
  /\ Len(figures) <= Len(AllFigures(markup))
  /\ np = "done" => Len(figures) = Len(AllFigures(markup))
  /\ \A j \in 1..Len(figures) :
       /\ Collapsed(figures[j].caption, AllFigures(markup)[j].figcaption)
       /\ OnlySvgImages(AllFigures(markup)[j]) => figures[j].images = <<>>

C20_Witness ==
  /\ np = "done"
  /\ Len(AllFigures(markup)) = 2
  /\ AllFigures(markup)[1].imgs # <<>>
  /\ figures[1] = FigureData(<<"Living", " ", "room">>, <<>>)
  /\ figures[2].caption = <<"Cap">>
  /\ figures[2].images # <<>>

LastOp == ops[Len(ops)]

\* C24: a lightweight response of scrapeUrl with a 2xx/3xx status whose body
\* carries an anti-bot signature is escalated to the rendering transport; its
\* body is not returned as the page content.
C24_SignatureBodyEscalates ==
  ( /\ entry \in Wrapped
    /\ resp.status >= 200 /\ resp.status < 400
    /\ resp.sig )
  => LastOp = "RENDER"

\* C25: a lightweight response with status 429, in scrapeUrl (fetchPage) and
\* in fetchRawHtml, is followed at once by a rendering invocation: it is not
\* recorded as a failed attempt, retried or surfaced.
C25_TooManyRequestsEscalates ==
  [][ ( /\ entry \in Wrapped \cup {"fetchRawHtml"}
        /\ pc = "get"
        /\ resp' # NoResp
        /\ resp'.status = 429 )
      => ( /\ ops' = Append(ops, "RENDER")
           /\ pc' = "launch"
           /\ lastError' = lastError
           /\ task' = task ) ]_vars

\* the size below which the earlier fetchPage takes a page for an empty shell
MinBodyBytes == 3000

\* C26: a lightweight response of scrapeUrl with a 2xx/3xx status whose body
\* is below the minimum size is followed by the rendering fallback; it is not
\* returned as the final markup.
C26_SmallBodyEscalates ==
  ( /\ entry \in Wrapped
    /\ resp.status >= 200 /\ resp.status < 400
    /\ resp.len < MinBodyBytes )
  => LastOp = "RENDER"

\* scrapeUrl has passed its protocol check and the host filter
Admitted ==
  /\ entry \in Wrapped
  /\ url.valid
  /\ url.protocol \in {"http:", "https:"}
  /\ pc \notin {"idle", "filter"}
  /\ ~block.blocked

\* C27: for a hostname of the requires-rendering set scrapeUrl makes exactly
\* one rendering invocation and never a lightweight GET; for every other
\* hostname the first transport operation is a lightweight GET and a
\* rendering comes only after one.
C27_InitialStrategy ==
  Admitted =>
    IF url.hostname = PortalHost \/ usePuppeteer
      THEN /\ Count("GET") = 0
           /\ Count("RENDER") = 1
      ELSE \A i \in DOMAIN ops :
             ops[i] = "RENDER" => \E j \in 1..(i - 1) : ops[j] = "GET"

C27_Witness ==
  /\ Admitted
  /\ url.hostname = PortalHost
  /\ pc = "done"
  /\ task.state = "ok"
  /\ ops = <<"FILTER", "RENDER">>

\* C28: in the lightweight path of scrapeUrl a failed attempt is not surfaced
\* while attempts remain: the call fails only after its 4th attempt, with the
\* error of that last attempt.
C28_OnlyExhaustionSurfaces ==
  ( /\ Admitted
    /\ url.hostname # PortalHost
    /\ task.state = "err" )
  => /\ Count("GET") = 4
     /\ task.err = ScrapeUrlCatch(lastError)
     /\ (resp # NoResp /\ LastOp = "GET") =>
          lastError.message = <<"HTTP_ERROR", "_", "STATUS_", ToString(resp.status)>>
     /\ (resp = NoResp /\ LastOp = "GET") => lastError.axios

C28_Witness ==
  /\ Admitted
  /\ pc = "done"
  /\ Count("GET") = 4
  /\ resp.status = 404
  /\ task.err.message = <<"HTTP_ERROR", "_", "STATUS_", "404">>
  /\ Count("RENDER") = 1

IsMobile(ua) == Includes(ua, <<"Mobile">>)

\* C29: in fetchPage's lightweight loop the first GET presents a desktop
\* User-Agent and every later GET presents MOBILE_UA.
C29_DesktopThenMobile ==
  \A i \in DOMAIN userAgents :
    IF i = 1 THEN ~IsMobile(userAgents[i]) ELSE userAgents[i] = MOBILE_UA

\* min(5000, 800 * 2^k)
NominalBackoff(k) ==
  LET e == IF k = 0 THEN 800 ELSE IF k = 1 THEN 1600 ELSE IF k = 2 THEN 3200 ELSE 6400
  IN  IF e < 5000 THEN e ELSE 5000

\* C30: the time slept after the k-th failed lightweight attempt (k = 0..3)
\* is at least min(5000, 800 * 2^k) ms and at most 5000 ms, jitter included.
C30_BackoffWithinCap ==
  \A i \in DOMAIN sleeps :
    /\ sleeps[i] >= NominalBackoff(i - 1)
    /\ sleeps[i] <= 5000

\* C21: in parseHtml and in scrapeFromQuery alike, for a markup with a title
\* element in head, the title returned is that element's trimmed text.
C21_HeadTitleReturned ==
  (tp = "done" /\ \E i \in source : Pool[i].tag = "title" /\ Pool[i].within = "head")
  => pageTitle = <<"Casa en venta">>

\* what a call with this plan yields when it runs alone
Alone(plan) ==
  CASE plan.get = "ok"    -> "ok:get"
    [] plan.get = "error" -> "err:http"
    [] plan.get = "block" -> IF plan.render = "ok" THEN "ok:render" ELSE "err:render"

\* C23: under any interleaving of concurrent scrapeUrl calls on one instance
\* no field of the instance changes, no two calls hold the same browser, a
\* browser is closed only by the call that launched it, and each finished call
\* has the outcome it has when run alone against the same responses.
C23_CallsIndependent ==
  /\ instance.lastRequestTime = 0
  /\ instance.currentProxyIndex = 0
  /\ instance.usePuppeteer = FALSE
  /\ instance.proxyList = <<>>
  /\ \A b \in DOMAIN browsers : browsers[b].closedBy \in {0, b[1]}
  /\ \A c \in DOMAIN calls, d \in DOMAIN calls :
       (c # d /\ calls[c].browser # NoBrowser) => calls[c].browser # calls[d].browser
  /\ \A c \in DOMAIN calls :
       calls[c].pc = "done" => calls[c].outcome = Alone(calls[c].plan)

\* one call has finished through a rendering whose browser it closed, while a
\* browser of another call is still open
C23_Witness ==
  \E c \in DOMAIN calls, b \in DOMAIN browsers :
    /\ calls[c].pc = "done"
    /\ calls[c].outcome = "ok:render"
    /\ browsers[calls[c].browser].closedBy = c
    /\ b[1] # c
    /\ browsers[b].state = "open"

\* C31: one safeEvaluate invocation calls page.evaluate at most 4 times: a
\* successful call ends it with that call's result, a retry follows only a
\* transient error and happens at most 3 times, and the error that leaves it is
\* the one page.evaluate rejected with, non-transient or met on the 4th call.
C31_SafeEvaluateRetries ==
  [][ /\ attempt' <= 3
      /\ (at = "evaluate" /\ samples' # samples) =>
           /\ attempt' = attempt
           /\ Len(samples') = Len(samples) + 1
      /\ (at = "evaluate" /\ at' = "done") =>
           /\ html'.state = "err"
           /\ \/ html'.err.message = <<"Evaluation failed">>
              \/ /\ attempt = 3
                 /\ \/ Includes(html'.err.message, <<"Target closed">>)
                    \/ Includes(html'.err.message, <<"Execution context was destroyed">>)
      /\ (at = "evaluate" /\ at' = "retry") => attempt = 3
      /\ (at = "evaluate" /\ at' = "evaluate") => attempt' = attempt + 1 ]_vars

C31_Witness ==
  /\ at = "done"
  /\ attempt = 3
  /\ html.state = "err"
  /\ Includes(html.err.message, <<"Target closed">>)

\* C32: within one scrapeUrl call no two transport operations are in flight
\* together: at most one browser session is open, and none is open while a
\* lightweight attempt pauses, has its GET in flight or backs off.
C32_OneOperationInFlight ==
  entry \in Wrapped =>
    /\ Cardinality(open) <= 1
    /\ pc \in {"pause", "get", "backoff"} => open = {}

\* the characters of a string that are not whitespace, run by run
Visible(str) == SelectSeq(str, LAMBDA run : run.c \notin {" ", "\n", "\t"})

\* the number of characters of a string
RECURSIVE Chars(_)
Chars(str) == IF str = <<>> THEN 0 ELSE Head(str).n + Chars(Tail(str))

\* C33: the text parseHtml returns is the body text, then the JSON-LD, then
\* __NEXT_DATA__, then the meta snippets: each segment only when present, each
\* cut to its cap (50000, 50000, 2000), nothing else and in that order.
C33_MetadataOrderAndCaps ==
  xp = "done" =>
    /\ Visible(pageText) =
         Visible(harvest.body)
         \o Visible(Slice(JoinLines(harvest.jsonLd), 50000))
         \o Visible(Slice(JoinLines(harvest.nextData), 50000))
         \o Visible(Slice(JoinLines(harvest.metas), 2000))
    /\ Chars(pageText) <= Chars(harvest.body) + 50001 + 50001 + 2001

C33_Witness ==
  /\ xp = "done"
  /\ harvest.body # <<>>
  /\ Chars(JoinLines(harvest.jsonLd)) > 50000
  /\ Chars(JoinLines(harvest.nextData)) > 50000
  /\ Chars(JoinLines(harvest.metas)) > 2000
  /\ Chars(pageText) = 20 + 50001 + 50001 + 2001

\* C34: the text parseHtml returns has no leading or trailing whitespace and
\* every whitespace run in it is one space character, with or without
\* metadata blocks appended.
C34_TextWhitespaceNormalized ==
  xp = "done" =>
    /\ pageText # <<>> => (pageText[1].c \notin {" ", "\n", "\t"}
                        /\ pageText[Len(pageText)].c \notin {" ", "\n", "\t"})
    /\ \A i \in DOMAIN pageText :
         pageText[i].c \in {" ", "\n", "\t"} =>
           /\ pageText[i] = [c |-> " ", n |-> 1]
           /\ i > 1 => pageText[i - 1].c \notin {" ", "\n", "\t"}

\* C35: no two entries of the images list of a document have the same
\* absolute URL, even when several img elements share their src.
C35_ImagesDeduplicated ==
  \A i \in 1..Len(images), j \in 1..Len(images) :
    (i # j /\ images[i].absSrc # <<>>) => images[i].absSrc # images[j].absSrc

\* C36: while a rendering invocation of scrapeUrl or fetchRawHtml for a
\* real-estate hostname is under way, allowHeavy is true: launchPuppeteer
\* installs no request interception for it.
C36_PortalRendersHeavy ==
  ( /\ entry \in {"scrapeOnly", "extractFromUrl", "fetchRawHtml"}
    /\ url.hostname = PortalHost
    /\ pc \in {"launch", "setup", "run", "retryWait", "closing"} )
  => allowHeavy

C36_Witness ==
  /\ entry = "fetchRawHtml"
  /\ url.hostname = PortalHost
  /\ pc = "setup"
  /\ ops = <<"RENDER">>
  /\ allowHeavy

\* C38: withTimeout settles once, with whichever comes first: when the raced
\* promise settles first the caller goes on with its outcome and the timer is
\* no longer armed for it; the timer fires only while armed and while the
\* promise is unsettled, and gives the tag's error; once the caller has
\* returned or rejected, neither a late settlement nor the timer changes it.
C38_WithTimeoutSettlesOnce ==
  [][ /\ callerPc \in {"returned", "rejected"} =>
           (callerPc' = callerPc /\ response' = response /\ timer' = timer)
      /\ (timer'.state = "fired" /\ timer.state # "fired") =>
           /\ timer.state = "armed"
           /\ timer'.tag = timer.tag
           /\ callerPc \in {"awaiting", "gemini"}
           /\ callerPc = "awaiting" => (task.state = "pending" /\ task' = task)
           /\ callerPc' = "returned"
           /\ response'.status = 504
      /\ (callerPc = "awaiting" /\ task.state = "pending" /\ task'.state # "pending") =>
           /\ callerPc' # "awaiting"
           /\ timer' # timer
           /\ timer'.state # "fired"
           /\ task'.state = "ok" => (callerPc' = "gemini" \/ response'.status = 200)
      /\ timer'.state = "armed" => callerPc' \in {"awaiting", "gemini"} ]_vars

C38_Witness ==
  /\ timer = Timer("fired", "SCRAPE_TIMEOUT")
  /\ callerPc = "returned"
  /\ response = Resp(504, FALSE, "REQUEST_TIMEOUT")
  /\ task.state = "err"
  /\ Count("GET") = 4

\* C37: every scrapeUrl call that has started eventually returns or throws,
\* provided each request, browser operation and pause it awaits completes.
C37_ScrapeUrlTerminates ==
  (entry \in Wrapped /\ pc = "filter") ~> (pc = "done" /\ task.state \in {"ok", "err"})

C37_Witness ==
  /\ entry \in Wrapped
  /\ pc = "done"
  /\ task.state = "err"
  /\ attemptNo = 4
  /\ runNo = 2
  /\ Count("RENDER") = 4

====
